---- MODULE Spec2Model ----
(***************************************************************************)
(* User and credential lifecycle of the firebase-py-api-base backend:      *)
(* the password-reset workflow (services/password_service.py over          *)
(* repositories/firestore/password_reset_repo.py) and the user lifecycle   *)
(* (services/user_service.py over repositories/firestore/user_repo.py),    *)
(* with the identity provider, the document store and the mail sender as   *)
(* state.  Every handler is one action; the outcome of each call that can  *)
(* fail (a document write, an identity-provider update, the mail send) is  *)
(* an input of the action.  Queries return what the store holds.           *)
(***************************************************************************)
EXTENDS Integers, Sequences, FiniteSets, TLC

VARIABLES
    now,              \* the wall clock, in hours
    password_resets,  \* the password_resets collection: a set of documents
    issued,           \* how many reset documents (and tokens) were ever generated
    auth_users,       \* the identity provider's accounts
    auth_next,        \* how many accounts the identity provider ever created
    users,            \* the users collection: a set of documents
    blobs,            \* the number of files in the blob store's profile_photos folder
    cleanup,          \* the runs of delete_expired_tokens in progress: where each
                      \* is, the documents its query returned, its count
    consumed,         \* history: the tokens with which reset_password returned success
    last,             \* the call being answered: its arguments, what it did, what it
                      \* returns; NoCall between two calls
    running,          \* the calls in progress at the same time: where each is, its
                      \* arguments, what it has read, what it returns
    notifications,    \* the notifications node of the realtime database
    push_keys,        \* how many push keys the realtime database ever generated
    device_tokens     \* the device_tokens collection, keyed by device token

vars == <<now, password_resets, issued, auth_users, auth_next, users, blobs, cleanup,
          consumed, last, running, notifications, push_keys, device_tokens>>

(***************************************************************************)
(* Bounds of the model.                                                    *)
(***************************************************************************)
MaxTime == 2
MaxResets == 2
MaxAccounts == 1

(***************************************************************************)
(* Program constants.                                                      *)
(***************************************************************************)
token_expiry_hours == 1
min_password_length == 8

(***************************************************************************)
(* Strings of the program.                                                 *)
(***************************************************************************)
MsgGeneric == "If an account exists with this email, a reset link has been sent."
MsgMailFailed == "Failed to send reset email. Please try again."
MsgError == "An error occurred. Please try again."
MsgTooShort == "Password must be at least 8 characters long."
MsgInvalidToken == "Invalid or expired reset token."
MsgExpired == "Reset token has expired. Please request a new one."
MsgUsed == "This reset token has already been used."
MsgAuthFailed == "Failed to update password. Please try again."
MsgResetDone == "Password has been reset successfully."

(***************************************************************************)
(* Email addresses, with str.lower() on them.                              *)
(***************************************************************************)
Emails == {"a@x.com", "A@x.com", "c@x.com"}

lower(s) == IF s = "A@x.com" THEN "a@x.com" ELSE s

(***************************************************************************)
(* Passwords, as sequences of characters.                                  *)
(***************************************************************************)
Str0ngPw == <<"S", "t", "r", "0", "n", "g", "!", "P", "w">>
NewPassw0rd == <<"N", "3", "w", "!", "P", "a", "s", "s", "w", "0", "r", "d">>
Weak == <<"w", "e", "a", "k">>

Passwords == {NewPassw0rd, Weak}

(***************************************************************************)
(* Date values as the document store holds them.  PasswordReset.to_dict    *)
(* writes expires_at and created_at as ISO-8601 strings; the repository    *)
(* writes used_at, and passes the operand of its range filters, as a       *)
(* datetime, which the store holds as a timestamp.                         *)
(***************************************************************************)
isoformat(t) == [kind |-> "string", at |-> t]
fromisoformat(v) == v.at
Timestamp(t) == [kind |-> "timestamp", at |-> t]
NoDate == [kind |-> "null", at |-> 0]

(***************************************************************************)
(* A range filter of the document store matches a field only when the      *)
(* field's value has the type of the operand.                              *)
(***************************************************************************)
FieldFilterGT(value, operand) == value.kind = operand.kind /\ value.at > operand.at

FieldFilterLE_untyped(value, operand) == value.at <= operand.at

FieldFilterLT(value, operand) == value.kind = operand.kind /\ value.at < operand.at

None == [id |-> 0]

(***************************************************************************)
(* utils/validators.py and utils/auth.py.  The two format checks are       *)
(* regular expressions; over the addresses and numbers of the model they   *)
(* accept exactly the values listed here.                                  *)
(***************************************************************************)
validate_email(email) == email \in {"a@x.com", "A@x.com", "c@x.com"}

validate_phone_number(phone) == phone \in {"555-123-4567"}

UpperCase == {"A", "B", "C", "D", "E", "F", "G", "H", "I", "J", "K", "L", "M",
              "N", "O", "P", "Q", "R", "S", "T", "U", "V", "W", "X", "Y", "Z"}

LowerCase == {"a", "b", "c", "d", "e", "f", "g", "h", "i", "j", "k", "l", "m",
              "n", "o", "p", "q", "r", "s", "t", "u", "v", "w", "x", "y", "z"}

Digits == {"0", "1", "2", "3", "4", "5", "6", "7", "8", "9"}

Special == {"!", "@", "#", "$", "%", "^", "&", "*", "(", ")", ",", ".", "?",
            "\"", ":", "{", "}", "|", "<", ">"}

validate_password(password) ==
    LET chars == {password[i] : i \in 1..Len(password)}
    IN  /\ Len(password) >= 8
        /\ chars \cap UpperCase # {}
        /\ chars \cap LowerCase # {}
        /\ chars \cap Digits # {}
        /\ chars \cap Special # {}

(***************************************************************************)
(* The JSON payload of a user request.  A field that the payload does not  *)
(* carry is "" (0 for firebase_uid, <<>> for password, FALSE for the two   *)
(* names); a field it carries is not empty.                                *)
(***************************************************************************)
NoData == [email |-> "", first_name |-> FALSE, last_name |-> FALSE, password |-> <<>>,
           phone_number |-> "", profile_picture |-> "", firebase_uid |-> 0]

validate_required_fields(data, create_auth_user) ==
    /\ data.email # ""
    /\ data.first_name
    /\ create_auth_user => data.password # <<>>

Base64Picture == "data:image/jpeg;base64"
PictureUrl == "https://cdn.example.com/p.jpg"
\* the file_url that StorageService.upload_file returns
StoredUrl == "https://storage.example.com/profile_photos/profile.jpg"

needs_upload(profile_picture) ==
    profile_picture # "" /\ profile_picture # PictureUrl

(***************************************************************************)
(* The identity provider.                                                  *)
(***************************************************************************)
get_user_by_email_placeholder(accounts, email) ==
    LET found == {u \in accounts : u.email = lower(email)}
    IN  IF found = {}
        THEN [uid |-> 0, email |-> lower(email), password |-> <<>>]
        ELSE CHOOSE u \in found : TRUE

get_user_by_email(accounts, email) ==
    LET found == {u \in accounts : u.email = lower(email)}
    IN  IF found = {} THEN None ELSE CHOOSE u \in found : TRUE

auth_update_password(accounts, uid, password) ==
    {IF u.uid = uid THEN [u EXCEPT !.password = password] ELSE u : u \in accounts}

(***************************************************************************)
(* FirestorePasswordResetRepository.                                       *)
(***************************************************************************)
PasswordReset(id, email, user_id, token, t) ==
    [id |-> id, email |-> email, user_id |-> user_id, token |-> token,
     expires_at |-> isoformat(t + token_expiry_hours),
     created_at |-> isoformat(t),
     used |-> FALSE, used_at |-> NoDate]

get_by_token(resets, token) ==
    LET docs == {d \in resets : d.token = token}
    IN  IF docs = {} THEN None ELSE CHOOSE d \in docs : TRUE

get_active_reset_by_email(resets, email, t) ==
    LET docs == {d \in resets : /\ d.email = email
                                /\ d.used = FALSE
                                /\ FieldFilterGT(d.expires_at, Timestamp(t))}
    IN  IF docs = {} THEN None
        ELSE CHOOSE d \in docs : \A o \in docs : o.created_at.at <= d.created_at.at

mark_as_used(resets, reset_id, t, ok) ==
    IF ok /\ \E d \in resets : d.id = reset_id
    THEN {IF d.id = reset_id
          THEN [d EXCEPT !.used = TRUE, !.used_at = Timestamp(t)]
          ELSE d : d \in resets}
    ELSE resets

delete(resets, reset_id, ok) ==
    IF ok THEN {d \in resets : d.id # reset_id} ELSE resets

expired_docs(resets, t) ==
    {d \in resets : FieldFilterLT(d.expires_at, Timestamp(t))}

delete_expired_tokens(resets, t) ==
    [resets |-> resets \ expired_docs(resets, t),
     count  |-> Cardinality(expired_docs(resets, t))]

(***************************************************************************)
(* PasswordReset.is_expired, on a document read back with from_dict.       *)
(***************************************************************************)
is_expired_late(d, t) == t > fromisoformat(d.expires_at) + token_expiry_hours

is_expired(d, t) == t > fromisoformat(d.expires_at)

already_used_ignored(d) == FALSE

already_used(d) == d.used

(***************************************************************************)
(* EmailService.send_password_reset_email returns true, returns false, or  *)
(* raises (the template is missing).                                       *)
(***************************************************************************)
MailOutcomes == {"sent", "failed", "raised"}

(***************************************************************************)
(* PasswordService.request_password_reset, as a function of the state it   *)
(* reads and of the outcomes of its calls.  The result carries the state   *)
(* it leaves and the (success, message) it returns.                        *)
(***************************************************************************)
request_password_reset(accounts, resets, n, t, email, createOk, mail, deleteOk) ==
    LET user     == get_user_by_email(accounts, email)
        existing == get_active_reset_by_email(resets, email, t)
        reset    == PasswordReset(n + 1, email, user.uid, n + 1, t)
        quiet    == [resets |-> resets, issued |-> n, created |-> 0, mail |-> "",
                     success |-> TRUE, message |-> MsgGeneric]
    IN  IF user = None THEN quiet
        ELSE IF existing # None THEN quiet
        ELSE IF ~createOk
        THEN [quiet EXCEPT !.issued = n + 1, !.success = FALSE, !.message = MsgError]
        ELSE IF mail = "sent"
        THEN [quiet EXCEPT !.resets = resets \cup {reset},
                           !.issued = n + 1, !.created = n + 1, !.mail = mail]
        ELSE IF mail = "failed"
        THEN [quiet EXCEPT !.resets = delete(resets \cup {reset}, n + 1, deleteOk),
                           !.issued = n + 1, !.created = n + 1, !.mail = mail,
                           !.success = FALSE, !.message = MsgMailFailed]
        ELSE [quiet EXCEPT !.resets = resets \cup {reset},
                           !.issued = n + 1, !.created = n + 1, !.mail = mail,
                           !.success = FALSE, !.message = MsgError]

(***************************************************************************)
(* PasswordService.reset_password.  updated tells whether the identity     *)
(* provider's credential was changed by the call.                          *)
(***************************************************************************)
too_short_never(new_password) == FALSE

too_short(new_password) == Len(new_password) < min_password_length

reset_password_burning(accounts, resets, t, token, new_password, authOk, markOk) ==
    LET password_reset == get_by_token(resets, token)
        refuse(msg) == [accounts |-> accounts, resets |-> resets, updated |-> FALSE,
                        success |-> FALSE, message |-> msg]
    IN  IF too_short(new_password) THEN refuse(MsgTooShort)
        ELSE IF password_reset = None THEN refuse(MsgInvalidToken)
        ELSE IF is_expired(password_reset, t) THEN refuse(MsgExpired)
        ELSE IF already_used(password_reset) THEN refuse(MsgUsed)
        ELSE IF ~(authOk /\ \E u \in accounts : u.uid = password_reset.user_id)
        THEN [refuse(MsgAuthFailed) EXCEPT
                 !.resets = mark_as_used(resets, password_reset.id, t, markOk)]
        ELSE [accounts |-> auth_update_password(accounts, password_reset.user_id, new_password),
              resets |-> mark_as_used(resets, password_reset.id, t, markOk),
              updated |-> TRUE, success |-> TRUE, message |-> MsgResetDone]

reset_password(accounts, resets, t, token, new_password, authOk, markOk) ==
    LET password_reset == get_by_token(resets, token)
        refuse(msg) == [accounts |-> accounts, resets |-> resets, updated |-> FALSE,
                        success |-> FALSE, message |-> msg]
    IN  IF too_short(new_password) THEN refuse(MsgTooShort)
        ELSE IF password_reset = None THEN refuse(MsgInvalidToken)
        ELSE IF is_expired(password_reset, t) THEN refuse(MsgExpired)
        ELSE IF already_used(password_reset) THEN refuse(MsgUsed)
        ELSE IF ~(authOk /\ \E u \in accounts : u.uid = password_reset.user_id)
        THEN refuse(MsgAuthFailed)
        ELSE [accounts |-> auth_update_password(accounts, password_reset.user_id, new_password),
              resets |-> mark_as_used(resets, password_reset.id, t, markOk),
              updated |-> TRUE, success |-> TRUE, message |-> MsgResetDone]

(***************************************************************************)
(* A run of delete_expired_tokens: idle, or past its query with the        *)
(* documents the query returned and the number deleted so far, or done.    *)
(***************************************************************************)
MaxRuns == 2

Runs == 1 .. MaxRuns

Idle == [pc |-> "idle", docs |-> {}, count |-> 0]

\* the per-commit limit that delete_expired_tokens keeps to
batch_limit == 500

(***************************************************************************)
(* The record of a call.                                                   *)
(***************************************************************************)
NoCall == [op |-> "none", email |-> "", token |-> 0, password |-> <<>>, uid |-> 0,
           data |-> NoData,
           success |-> FALSE, message |-> "", registered |-> FALSE,
           created |-> 0, mail |-> "", updated |-> FALSE, count |-> 0,
           twin_success |-> FALSE, twin_message |-> "",
           current |-> <<>>, outcome |-> "", errors |-> <<>>, found |-> None]

(***************************************************************************)
(* Calls that run at the same time, each a sequence of steps: one step per *)
(* call to the identity provider, the document store or the mail sender.   *)
(* A call that is not running is at pc "idle".  found is what the call's   *)
(* last query returned, seen how many documents the collection held at     *)
(* that query, made the id of the document or account the call created.    *)
(***************************************************************************)
MaxCalls == 2

Calls == 1 .. MaxCalls

NotRunning == [pc |-> "idle", op |-> "none", email |-> "", token |-> 0,
               password |-> <<>>, found |-> None, seen |-> 0, made |-> 0,
               outcome |-> "",
               success |-> FALSE, message |-> ""]

(***************************************************************************)
(* The state that differs from users only in whether email is registered.  *)
(***************************************************************************)
twin_users(accounts, email) ==
    IF get_user_by_email(accounts, email) # None
    THEN {u \in accounts : u.email # lower(email)}
    ELSE accounts \cup {[uid |-> 0, email |-> lower(email), password |-> Str0ngPw]}

(***************************************************************************)
(* The outcomes of the calls of one request: whether the document write    *)
(* succeeds, what the mail send does, whether the compensating delete      *)
(* succeeds (it is attempted only after a send that returned false).       *)
(***************************************************************************)
RequestOutcomes ==
    {<<FALSE, "sent", TRUE>>, <<TRUE, "sent", TRUE>>, <<TRUE, "raised", TRUE>>,
     <<TRUE, "failed", TRUE>>, <<TRUE, "failed", FALSE>>}

(***************************************************************************)
(* The outcomes of the calls of one reset: whether the identity provider   *)
(* accepts the update, whether the write of mark_as_used succeeds.         *)
(***************************************************************************)
ResetOutcomes == {<<TRUE, TRUE>>, <<FALSE, TRUE>>, <<TRUE, FALSE>>}

(***************************************************************************)
(* The password-reset workflow: its initial state and actions.             *)
(***************************************************************************)
InitReset ==
    /\ now = 0
    /\ password_resets = {}
    /\ issued = 0
    /\ auth_users = {[uid |-> 1, email |-> "a@x.com", password |-> Str0ngPw]}
    /\ auth_next = 1
    /\ users = {[id |-> 1, email |-> "a@x.com", firebase_uid |-> 1,
                 profile_picture |-> "", onboarding_completed |-> FALSE,
                 updated_at |-> isoformat(0)]}
    /\ blobs = 0
    /\ cleanup = [r \in Runs |-> Idle]
    /\ consumed = {}
    /\ last = NoCall
    /\ running = [c \in Calls |-> NotRunning]
    /\ notifications = {}
    /\ push_keys = 0
    /\ device_tokens = {}

RequestReset(email, createOk, mail, deleteOk) ==
    LET r == request_password_reset(auth_users, password_resets, issued, now,
                                    email, createOk, mail, deleteOk)
        w == request_password_reset(twin_users(auth_users, email), password_resets,
                                    issued, now, email, createOk, mail, deleteOk)
    IN  /\ last = NoCall
        /\ issued < MaxResets
        /\ password_resets' = r.resets
        /\ issued' = r.issued
        /\ last' = [NoCall EXCEPT !.op = "request_reset", !.email = email,
                        !.success = r.success, !.message = r.message,
                        !.registered = (get_user_by_email(auth_users, email) # None),
                        !.created = r.created, !.mail = r.mail,
                        !.twin_success = w.success, !.twin_message = w.message]
        /\ UNCHANGED <<now, auth_users, auth_next, users, blobs, consumed, cleanup, running,
            notifications, push_keys, device_tokens>>

ResetPassword(token, new_password, authOk, markOk) ==
    LET r == reset_password(auth_users, password_resets, now, token, new_password,
                            authOk, markOk)
    IN  /\ last = NoCall
        /\ auth_users' = r.accounts
        /\ password_resets' = r.resets
        /\ consumed' = IF r.success THEN consumed \cup {token} ELSE consumed
        /\ last' = [NoCall EXCEPT !.op = "reset_password", !.token = token,
                        !.password = new_password, !.success = r.success,
                        !.message = r.message, !.updated = r.updated]
        /\ UNCHANGED <<now, issued, auth_next, users, blobs, cleanup, running, notifications,
            push_keys, device_tokens>>

CleanupExpiredTokens ==
    LET r == delete_expired_tokens(password_resets, now)
    IN  /\ last = NoCall
        /\ password_resets' = r.resets
        /\ last' = [NoCall EXCEPT !.op = "cleanup_expired_tokens", !.count = r.count]
        /\ UNCHANGED <<now, issued, auth_users, auth_next, users, blobs, consumed, cleanup, running,
            notifications, push_keys, device_tokens>>

Tick ==
    /\ last = NoCall
    /\ now < MaxTime
    /\ now' = now + 1
    /\ UNCHANGED <<password_resets, issued, auth_users, auth_next, users, blobs, consumed,
                   last, cleanup, running, notifications, push_keys, device_tokens>>

(***************************************************************************)
(* The response is handed to the caller; the next call can start.  Calls   *)
(* are executed one after another.                                         *)
(***************************************************************************)
Return ==
    /\ last # NoCall
    /\ last' = NoCall
    /\ UNCHANGED <<now, password_resets, issued, auth_users, auth_next, users, blobs,
                   consumed, cleanup, running, notifications, push_keys, device_tokens>>

NextReset ==
    \/ \E email \in Emails, o \in RequestOutcomes : RequestReset(email, o[1], o[2], o[3])
    \/ \E token \in 0 .. MaxResets, p \in Passwords, o \in ResetOutcomes :
          ResetPassword(token, p, o[1], o[2])
    \/ CleanupExpiredTokens
    \/ Tick
    \/ Return

SpecReset == InitReset /\ [][NextReset]_vars

(***************************************************************************)
(* Properties of the password-reset workflow, under SpecReset.  A step     *)
(* from last = NoCall to another value of last is a call, which last'      *)
(* describes.                                                              *)
(***************************************************************************)
Registered(email) == \E u \in auth_users : u.email = lower(email)

\* C3: once a record has used = true, a reset_password call presenting its
\* token is refused and leaves the identity provider's credential as it was.
C3_UsedTokenAuthorizesNothing ==
    [][\A d \in password_resets :
          (d.used /\ last = NoCall /\ last'.op = "reset_password" /\ last'.token = d.token)
          => (~last'.updated /\ ~last'.success /\ auth_users' = auth_users)]_vars

C3_Witness ==
    /\ last.op = "reset_password"
    /\ last.message = MsgUsed
    /\ Len(last.password) >= min_password_length
    /\ \E d \in password_resets : d.token = last.token /\ d.used

\* C4: whenever reset_password returns success, the record of the presented
\* token has used = true and used_at set in the state right after the call.
C4_SuccessLeavesRecordUsed ==
    (last.op = "reset_password" /\ last.success)
    => \E d \in password_resets :
          d.token = last.token /\ d.used /\ d.used_at # NoDate

\* C5: a reset_password call with a token that an earlier call consumed
\* successfully (the record still stored and unexpired, the password of valid
\* length) fails with the "already used" message, which is neither the
\* not-found nor the expired one.
C5_SecondAttemptSaysUsed ==
    [][(/\ last = NoCall /\ last'.op = "reset_password"
        /\ last'.token \in consumed
        /\ \E d \in password_resets : d.token = last'.token /\ now <= d.expires_at.at
        /\ Len(last'.password) >= min_password_length)
       => (/\ ~last'.success
           /\ last'.message = MsgUsed
           /\ MsgUsed # MsgInvalidToken
           /\ MsgUsed # MsgExpired)]_vars

\* C6 as stated: for a record with now > expires_at, reset_password with its
\* token and any password fails with the "expired" message and changes neither
\* the credential nor the record.
C6_ExpiredRefusedAnyPassword ==
    [][\A d \in password_resets :
          (now > d.expires_at.at /\ last = NoCall
           /\ last'.op = "reset_password" /\ last'.token = d.token)
          => (/\ ~last'.success /\ last'.message = MsgExpired
              /\ auth_users' = auth_users /\ password_resets' = password_resets)]_vars

\* C6 amended: for a record with now > expires_at, reset_password with its
\* token and a password of at least min_password_length characters fails with
\* the "expired" message, used or not, and changes neither the credential nor
\* the record; with a shorter password it fails with the length message.
C6_ExpiredRefused ==
    [][\A d \in password_resets :
          (now > d.expires_at.at /\ last = NoCall
           /\ last'.op = "reset_password" /\ last'.token = d.token)
          => (/\ ~last'.success
              /\ last'.message = IF Len(last'.password) >= min_password_length
                                 THEN MsgExpired ELSE MsgTooShort
              /\ auth_users' = auth_users /\ password_resets' = password_resets)]_vars

C6_Witness ==
    /\ last.op = "reset_password"
    /\ last.message = MsgExpired
    /\ \E d \in password_resets : d.token = last.token /\ ~d.used /\ now > d.expires_at.at

\* C7: at most one unused and unexpired record exists per email.
C7_OneActivePerEmail ==
    \A e \in Emails :
        Cardinality({d \in password_resets :
                        d.email = e /\ ~d.used /\ d.expires_at.at > now}) <= 1

\* C8: request_reset for an email with no identity-provider account returns
\* success with the generic message, creates no record, sends no mail and
\* leaves the set of stored records unchanged.
C8_UnknownEmailChangesNothing ==
    [][(last = NoCall /\ last'.op = "request_reset" /\ ~Registered(last'.email))
       => (/\ last'.success /\ last'.message = MsgGeneric
           /\ last'.created = 0 /\ last'.mail = ""
           /\ password_resets' = password_resets)]_vars

C8_Witness ==
    /\ last.op = "request_reset"
    /\ ~Registered(last.email)
    /\ last.success /\ last.message = MsgGeneric
    /\ password_resets # {}

\* C9: the (success, message) request_reset returns is the one it returns in
\* the state that differs only in whether the email is registered.
C9_ResultHidesRegistration ==
    last.op = "request_reset"
    => (last.success = last.twin_success /\ last.message = last.twin_message)

\* C10: if request_reset created a record and the mail delivery failed, a
\* failure is returned and the just-created record is no longer stored.
C10_UndeliveredRecordDeleted ==
    (last.op = "request_reset" /\ last.created # 0 /\ last.mail # "sent")
    => (~last.success /\ ~\E d \in password_resets : d.id = last.created)

(***************************************************************************)
(* The user lifecycle: UserService over FirestoreUserRepository and the    *)
(* identity provider.                                                      *)
(***************************************************************************)
MaxBlobs == 1

\* a firebase_uid a client supplies that the identity provider never issued
ExternalUid == 9

Uids == (1..MaxAccounts) \cup {ExternalUid}

MsgMissingFields == "Missing required fields"
MsgInvalidEmail == "Invalid email format"
MsgInvalidPhone == "Invalid phone number format"
MsgDuplicate == "User with email already exists"
MsgKeyError == "'last_name'"
MsgUploadFailed == "Failed to upload profile picture"
MsgPasswordErrors == "Password must contain"
MsgUidRequired == "firebase_uid is required to create a user"
MsgAuthError == "identity provider error"
MsgStoreError == "document store error"
MsgEmailInUse == "Email is already in use"
MsgAuthEmailUpdate == "Error updating email in Firebase Authentication"
MsgNotFound == "No user found with Firebase UID"
MsgCreated == "User created successfully"
MsgUpdated == "User updated successfully"
MsgDeleted == "User deleted successfully"

(***************************************************************************)
(* FirestoreUserRepository.  A document is keyed by id; email and          *)
(* firebase_uid are fields of it.                                          *)
(***************************************************************************)
get_by_firebase_uid(docs, firebase_uid) ==
    LET found == {d \in docs : d.id = firebase_uid}
    IN  IF found = {} THEN None ELSE CHOOSE d \in found : TRUE

get_by_email_miss(docs, email) == None

\* collection.limit(1000): the scan reads that many documents, the first in
\* the order of their ids
scan_limit == 1000

scanned_none(docs) == {}

\* the documents that collection.limit(1000).stream() yields
scanned(docs) ==
    IF Cardinality(docs) <= scan_limit THEN docs
    ELSE {d \in docs : Cardinality({o \in docs : o.id < d.id}) < scan_limit}

get_by_email(docs, email) ==
    LET lower_email == lower(email)
        exact == {d \in docs : d.email = lower_email}
        literal == {d \in docs : d.email = email}
        folded == {d \in scanned(docs) : d.email # "" /\ lower(d.email) = lower_email}
    IN  IF exact # {} THEN CHOOSE d \in exact : TRUE
        ELSE IF literal # {} THEN CHOOSE d \in literal : TRUE
        ELSE IF folded # {} THEN CHOOSE d \in folded : TRUE
        ELSE None

\* the document of a User built by create_user, as User.to_dict writes it
User(email, firebase_uid, profile_picture, t) ==
    [id |-> firebase_uid, email |-> email, firebase_uid |-> firebase_uid,
     profile_picture |-> profile_picture, onboarding_completed |-> FALSE,
     updated_at |-> isoformat(t)]

user_repo_create(docs, user) ==
    {d \in docs : d.id # user.firebase_uid}
        \cup {[user EXCEPT !.id = user.firebase_uid, !.email = lower(user.email)]}

\* user_data holds the fields to write, keyed by their names; the fields of a
\* document that the model does not keep are left out
user_repo_update(docs, firebase_uid, user_data) ==
    LET keys == DOMAIN user_data \ {"id"}
        value(d, k) == IF k \notin keys THEN d[k]
                       ELSE IF k = "email" THEN lower(user_data[k])
                       ELSE user_data[k]
    IN  {IF d.id # firebase_uid THEN d
         ELSE [id                   |-> d.id,
               email                |-> value(d, "email"),
               firebase_uid         |-> value(d, "firebase_uid"),
               profile_picture      |-> value(d, "profile_picture"),
               onboarding_completed |-> value(d, "onboarding_completed"),
               updated_at           |-> value(d, "updated_at")] : d \in docs}

user_repo_delete_kept(docs, firebase_uid) == docs

user_repo_delete(docs, firebase_uid) == {d \in docs : d.id # firebase_uid}

(***************************************************************************)
(* The identity provider's account operations.  It keeps emails unique.    *)
(***************************************************************************)
auth_create_user_rolled_back(accounts, n, email, password) == accounts

auth_create_user(accounts, n, email, password) ==
    accounts \cup {[uid |-> n + 1, email |-> lower(email), password |-> password]}

auth_update_email_unchecked(accounts, uid, email) == TRUE

auth_update_email_allowed(accounts, uid, email) ==
    /\ \E u \in accounts : u.uid = uid
    /\ ~ \E u \in accounts : u.uid # uid /\ u.email = email

auth_update_email(accounts, uid, email) ==
    {IF u.uid = uid THEN [u EXCEPT !.email = email] ELSE u : u \in accounts}

auth_delete_user(accounts, uid) == {u \in accounts : u.uid # uid}

(***************************************************************************)
(* UserService.create_user.  outcome is what the calls to the outside do:  *)
(* "ok", or the one that fails ("upload_fails", "auth_fails",              *)
(* "token_fails" when the custom token cannot be minted after the account  *)
(* was created, "write_fails").  n is the identity provider's account      *)
(* counter.                                                                *)
(***************************************************************************)
create_user(docs, accounts, n, files, t, data, create_auth_user, outcome) ==
    LET email == lower(data.email)
        upload == needs_upload(data.profile_picture)
        files1 == IF upload THEN files + 1 ELSE files
        profile_picture == IF upload THEN StoredUrl ELSE data.profile_picture
        provision == data.firebase_uid = 0
        accounts1 == IF provision
                     THEN auth_create_user(accounts, n, email, data.password)
                     ELSE accounts
        n1 == IF provision THEN n + 1 ELSE n
        firebase_uid == IF provision THEN n + 1 ELSE data.firebase_uid
        raise(message, acc, next, fl) ==
            [users |-> docs, accounts |-> acc, next |-> next, blobs |-> fl,
             success |-> FALSE, message |-> message, uid |-> 0]
    IN  IF ~validate_required_fields(data, create_auth_user)
        THEN raise(MsgMissingFields, accounts, n, files)
        ELSE IF ~validate_email(data.email)
        THEN raise(MsgInvalidEmail, accounts, n, files)
        ELSE IF data.phone_number # "" /\ ~validate_phone_number(data.phone_number)
        THEN raise(MsgInvalidPhone, accounts, n, files)
        ELSE IF get_by_email(docs, email) # None
        THEN raise(MsgDuplicate, accounts, n, files)
        ELSE IF ~data.last_name
        THEN raise(MsgKeyError, accounts, n, files)
        ELSE IF upload /\ outcome = "upload_fails"
        THEN raise(MsgUploadFailed, accounts, n, files)
        ELSE IF provision /\ ~create_auth_user
        THEN raise(MsgUidRequired, accounts, n, files1)
        ELSE IF provision /\ ~validate_password(data.password)
        THEN raise(MsgPasswordErrors, accounts, n, files1)
        ELSE IF provision /\ get_user_by_email(accounts, email) # None
        THEN raise(MsgDuplicate, accounts, n, files1)
        ELSE IF provision /\ outcome = "auth_fails"
        THEN raise(MsgAuthError, accounts, n, files1)
        ELSE IF provision /\ outcome = "token_fails"
        THEN raise(MsgAuthError, accounts1, n1, files1)
        ELSE IF outcome = "write_fails"
        THEN raise(MsgStoreError, accounts1, n1, files1)
        ELSE [users |-> user_repo_create(docs, User(email, firebase_uid, profile_picture, t)),
              accounts |-> accounts1, next |-> n1, blobs |-> files1,
              success |-> TRUE, message |-> MsgCreated, uid |-> firebase_uid]

\* no field to write
NoFields == [k \in {} |-> 0]

(***************************************************************************)
(* UserService.update_user.                                                *)
(***************************************************************************)
update_user(docs, accounts, files, t, firebase_uid, data, outcome) ==
    LET existing_user == get_by_firebase_uid(docs, firebase_uid)
        email == lower(data.email)
        changes == data.email # "" /\ email # lower(existing_user.email)
        email_check == get_by_email(docs, email)
        accounts1 == IF changes THEN auth_update_email(accounts, firebase_uid, email)
                     ELSE accounts
        upload == needs_upload(data.profile_picture)
        files1 == IF upload THEN files + 1 ELSE files
        user_data ==
            (IF data.email # "" THEN "email" :> email ELSE NoFields)
            @@ (IF data.firebase_uid # 0 THEN "firebase_uid" :> data.firebase_uid
                ELSE NoFields)
            @@ (IF data.profile_picture # ""
                THEN "profile_picture" :> (IF upload THEN StoredUrl ELSE data.profile_picture)
                ELSE NoFields)
            @@ ("updated_at" :> Timestamp(t))
        raise(message, acc, fl) ==
            [users |-> docs, accounts |-> acc, blobs |-> fl,
             success |-> FALSE, message |-> message]
    IN  IF existing_user = None
        THEN raise(MsgNotFound, accounts, files)
        ELSE IF data.email # "" /\ ~validate_email(data.email)
        THEN raise(MsgInvalidEmail, accounts, files)
        ELSE IF changes /\ email_check # None /\ email_check.firebase_uid # firebase_uid
        THEN raise(MsgEmailInUse, accounts, files)
        ELSE IF changes /\ (\/ outcome = "auth_fails"
                            \/ ~auth_update_email_allowed(accounts, firebase_uid, email))
        THEN raise(MsgAuthEmailUpdate, accounts, files)
        ELSE IF data.phone_number # "" /\ ~validate_phone_number(data.phone_number)
        THEN raise(MsgInvalidPhone, accounts1, files)
        ELSE IF upload /\ outcome = "upload_fails"
        THEN raise(MsgUploadFailed, accounts1, files)
        ELSE IF outcome = "write_fails"
        THEN raise(MsgStoreError, accounts1, files1)
        ELSE [users |-> user_repo_update(docs, firebase_uid, user_data),
              accounts |-> accounts1, blobs |-> files1,
              success |-> TRUE, message |-> MsgUpdated]

(***************************************************************************)
(* UserService.delete_user: the document first, then, best effort, the     *)
(* identity provider's account.                                            *)
(***************************************************************************)
delete_user(docs, accounts, firebase_uid, outcome) ==
    IF get_by_firebase_uid(docs, firebase_uid) = None
    THEN [users |-> docs, accounts |-> accounts, success |-> FALSE, message |-> MsgNotFound]
    ELSE IF outcome = "write_fails"
    THEN [users |-> docs, accounts |-> accounts, success |-> FALSE, message |-> MsgStoreError]
    ELSE [users |-> user_repo_delete(docs, firebase_uid),
          accounts |-> IF outcome = "auth_fails" THEN accounts
                       ELSE auth_delete_user(accounts, firebase_uid),
          success |-> TRUE, message |-> MsgDeleted]

(***************************************************************************)
(* The requests of the user endpoints: a payload and the outcome of the    *)
(* outside calls.  The payloads are a valid registration for each address, *)
(* that registration with one field changed, and a registration that       *)
(* supplies its own firebase_uid.                                          *)
(***************************************************************************)
NewUser(email) == [NoData EXCEPT !.email = email, !.first_name = TRUE,
                                 !.last_name = TRUE, !.password = Str0ngPw]

CreatePayloads ==
    {NewUser(e) : e \in Emails}
    \cup {[NewUser("a@x.com") EXCEPT !.first_name = FALSE],
          [NewUser("a@x.com") EXCEPT !.last_name = FALSE],
          [NewUser("a@x.com") EXCEPT !.password = <<>>],
          [NewUser("a@x.com") EXCEPT !.password = Weak],
          [NewUser("a@x.com") EXCEPT !.phone_number = "12345"],
          [NewUser("a@x.com") EXCEPT !.phone_number = "555-123-4567"],
          [NewUser("a@x.com") EXCEPT !.profile_picture = Base64Picture],
          [NewUser("a@x.com") EXCEPT !.email = ""],
          [NewUser("a@x.com") EXCEPT !.email = "not-an-email"]}
    \cup {[NewUser(e) EXCEPT !.firebase_uid = u] : e \in {"a@x.com", "c@x.com"}, u \in Uids}

CreateRequests ==
    {<<data, "ok">> : data \in CreatePayloads}
    \cup {<<NewUser("c@x.com"), o>> : o \in {"auth_fails", "token_fails", "write_fails"}}
    \cup {<<[NewUser("a@x.com") EXCEPT !.profile_picture = Base64Picture], "upload_fails">>}

UpdatePayloads ==
    {[NoData EXCEPT !.email = e] : e \in Emails \cup {"not-an-email"}}
    \cup {[NoData EXCEPT !.firebase_uid = u] : u \in Uids}
    \cup {[NoData EXCEPT !.first_name = TRUE],
          [NoData EXCEPT !.phone_number = "12345"],
          [NoData EXCEPT !.email = "c@x.com", !.phone_number = "12345"],
          [NoData EXCEPT !.profile_picture = Base64Picture]}

UpdateRequests ==
    {<<data, "ok">> : data \in UpdatePayloads}
    \cup {<<[NoData EXCEPT !.email = "c@x.com"], o>> : o \in {"auth_fails", "write_fails"}}
    \cup {<<[NoData EXCEPT !.profile_picture = Base64Picture], "upload_fails">>}

DeleteOutcomes == {"ok", "auth_fails", "write_fails"}

Init ==
    /\ now = 0
    /\ password_resets = {}
    /\ issued = 0
    /\ auth_users = {}
    /\ auth_next = 0
    /\ users = {}
    /\ blobs = 0
    /\ cleanup = [r \in Runs |-> Idle]
    /\ consumed = {}
    /\ last = NoCall
    /\ running = [c \in Calls |-> NotRunning]
    /\ notifications = {}
    /\ push_keys = 0
    /\ device_tokens = {}

\* POST /users (api/v1/users.py) always asks for an identity-provider account
CreateUser(data, outcome) ==
    LET r == create_user(users, auth_users, auth_next, blobs, now, data, TRUE, outcome)
    IN  /\ last = NoCall
        /\ data.firebase_uid \in {0, ExternalUid} \cup (1..auth_next)
        /\ r.next <= MaxAccounts
        /\ r.blobs <= MaxBlobs
        /\ users' = r.users
        /\ auth_users' = r.accounts
        /\ auth_next' = r.next
        /\ blobs' = r.blobs
        /\ last' = [NoCall EXCEPT !.op = "create_user", !.email = data.email,
                                  !.data = data, !.uid = r.uid,
                                  !.success = r.success, !.message = r.message]
        /\ UNCHANGED <<now, password_resets, issued, consumed, cleanup, running, notifications,
            push_keys, device_tokens>>

UpdateUser(firebase_uid, data, outcome) ==
    LET r == update_user(users, auth_users, blobs, now, firebase_uid, data, outcome)
    IN  /\ last = NoCall
        /\ r.blobs <= MaxBlobs
        /\ users' = r.users
        /\ auth_users' = r.accounts
        /\ blobs' = r.blobs
        /\ last' = [NoCall EXCEPT !.op = "update_user", !.email = data.email,
                                  !.data = data, !.uid = firebase_uid,
                                  !.success = r.success, !.message = r.message]
        /\ UNCHANGED <<now, password_resets, issued, auth_next, consumed, cleanup, running,
            notifications, push_keys, device_tokens>>

\* DELETE /users deletes the authenticated caller: firebase_uid is the uid of
\* a token of the identity provider
DeleteUser(firebase_uid, outcome) ==
    LET r == delete_user(users, auth_users, firebase_uid, outcome)
    IN  /\ last = NoCall
        /\ firebase_uid \in 1..auth_next
        /\ users' = r.users
        /\ auth_users' = r.accounts
        /\ last' = [NoCall EXCEPT !.op = "delete_user", !.uid = firebase_uid,
                                  !.success = r.success, !.message = r.message]
        /\ UNCHANGED <<now, password_resets, issued, auth_next, blobs, consumed, cleanup, running,
            notifications, push_keys, device_tokens>>

Next ==
    \/ \E q \in CreateRequests : CreateUser(q[1], q[2])
    \/ \E firebase_uid \in Uids, q \in UpdateRequests : UpdateUser(firebase_uid, q[1], q[2])
    \/ \E firebase_uid \in Uids, outcome \in DeleteOutcomes : DeleteUser(firebase_uid, outcome)
    \/ Return

Spec == Init /\ [][Next]_vars

(***************************************************************************)
(* Properties of the user lifecycle, under Spec.                           *)
(***************************************************************************)

\* C1: after any sequence of create_user, update_user and delete_user calls
\* executed one after another, no two stored user documents have emails that
\* are equal when compared case-insensitively.
C1_EmailsUnique ==
    \A d1, d2 \in users : d1.id # d2.id => lower(d1.email) # lower(d2.email)

\* C2 (as stated): a create_user call whose email equals, case-insensitively,
\* the email of a stored user document fails with the duplicate-email error,
\* writes no user document and creates no identity-provider account.
C2_DuplicateErrorAlways ==
    [][(/\ last = NoCall /\ last'.op = "create_user"
        /\ \E d \in users : lower(d.email) = lower(last'.email))
       => (/\ ~last'.success /\ last'.message = MsgDuplicate
           /\ users' = users /\ auth_users' = auth_users /\ auth_next' = auth_next)]_vars

\* C2 (amended): a create_user call whose email equals, case-insensitively, the
\* email of a stored user document fails, writes no user document and creates
\* no identity-provider account; its error is the duplicate-email error unless
\* the payload lacks a required field or carries an invalid phone number, which
\* are reported first.
C2_DuplicateRefused ==
    [][(/\ last = NoCall /\ last'.op = "create_user"
        /\ \E d \in users : lower(d.email) = lower(last'.email))
       => (/\ ~last'.success
           /\ users' = users /\ auth_users' = auth_users /\ auth_next' = auth_next
           /\ last'.message =
                IF ~validate_required_fields(last'.data, TRUE) THEN MsgMissingFields
                ELSE IF /\ last'.data.phone_number # ""
                        /\ ~validate_phone_number(last'.data.phone_number)
                     THEN MsgInvalidPhone
                ELSE MsgDuplicate)]_vars

\* a registration with the address of a stored document, in another letter
\* case, has just been refused as a duplicate
C2_Witness ==
    /\ last.op = "create_user" /\ ~last.success /\ last.message = MsgDuplicate
    /\ last.email = "A@x.com"
    /\ \E d \in users : d.email = "a@x.com"

(***************************************************************************)
(* Further properties of the password-reset workflow, under SpecReset.     *)
(***************************************************************************)

\* C11: when the identity provider refuses the credential update of a
\* reset_password call for a valid, unused, unexpired token, the call returns
\* failure and changes neither the record nor the credential, and at every
\* later hour up to the expiry a reset_password call with the same token in
\* which the provider accepts the update returns success.
C11_FailedUpdateLeavesTokenUsable ==
    [][(last = NoCall /\ last'.op = "reset_password" /\ last'.message = MsgAuthFailed)
       => (/\ ~last'.success /\ ~last'.updated
           /\ password_resets' = password_resets /\ auth_users' = auth_users
           /\ \E d \in password_resets' :
                 /\ d.token = last'.token /\ ~d.used
                 /\ \A t \in now .. MaxTime :
                       t <= fromisoformat(d.expires_at)
                       => reset_password(auth_users', password_resets', t, d.token,
                                         last'.password, TRUE, TRUE).success)]_vars

C11_Witness ==
    /\ last.op = "reset_password" /\ last.message = MsgAuthFailed
    /\ \E d \in password_resets :
          d.token = last.token /\ ~d.used /\ now <= fromisoformat(d.expires_at)

\* C12: a reset_password call with a new password of fewer than 8 characters
\* fails with the password-length message whatever the token, and leaves
\* every record and the identity provider's credentials as they were.
C12_ShortPasswordRefusedFirst ==
    [][(/\ last = NoCall /\ last'.op = "reset_password"
        /\ Len(last'.password) < min_password_length)
       => (/\ ~last'.success /\ last'.message = MsgTooShort
           /\ password_resets' = password_resets /\ auth_users' = auth_users)]_vars

C12_Witness ==
    /\ last.op = "reset_password" /\ last.message = MsgTooShort
    /\ \E d \in password_resets :
          d.token = last.token /\ ~d.used /\ now <= fromisoformat(d.expires_at)

(***************************************************************************)
(* Further properties of the user lifecycle, under Spec.                   *)
(***************************************************************************)

\* C13: in every reachable state the key of each stored user document equals
\* the document's firebase_uid field, so that no update_user call, whatever
\* its payload carries, changes the identifier the document was created with.
C13_IdentifierImmutable ==
    \A d \in users : d.firebase_uid = d.id

\* C15: an update_user call that changes the email of a user document leaves
\* the identity provider's account of that id with the new email, and a call
\* in which the identity provider's update fails returns failure and leaves
\* the user documents and the identity provider as they were.
C15_IdentityEmailBeforeDocument ==
    [][(last = NoCall /\ last'.op = "update_user")
       => (/\ last'.message = MsgAuthEmailUpdate
                 => (~last'.success /\ users' = users /\ auth_users' = auth_users)
           /\ \A d \in users, e \in users' :
                 (e.id = d.id /\ e.email # d.email)
                 => \E u \in auth_users' : u.uid = d.id /\ u.email = e.email)]_vars

C15_Witness ==
    /\ last.op = "update_user" /\ last.message = MsgAuthEmailUpdate
    /\ \E d \in users : d.id = last.uid /\ d.email # lower(last.email)

ValidationErrors == {MsgMissingFields, MsgInvalidEmail, MsgInvalidPhone, MsgPasswordErrors}

\* C16: a create_user or update_user call that ends in a validation error
\* (missing field, email format, phone format, weak password) leaves the
\* identity provider, the blob store and the user documents unchanged.
C16_ValidationErrorChangesNothing ==
    [][(/\ last = NoCall /\ last'.op \in {"create_user", "update_user"}
        /\ last'.message \in ValidationErrors)
       => (/\ users' = users /\ blobs' = blobs
           /\ auth_users' = auth_users /\ auth_next' = auth_next)]_vars

\* C17: a delete_user call for an id without user document returns not-found
\* and touches neither store; for an id with a user document it either fails
\* on the document delete, leaving both stores as they were, or returns
\* success with the document gone, whether or not the identity provider's
\* account could be deleted, and no other account is removed.
C17_DocumentFirstThenIdentity ==
    [][(last = NoCall /\ last'.op = "delete_user")
       => IF \E d \in users : d.id = last'.uid
          THEN \/ /\ ~last'.success /\ last'.message = MsgStoreError
                  /\ users' = users /\ auth_users' = auth_users
               \/ /\ last'.success
                  /\ users' = {d \in users : d.id # last'.uid}
                  /\ auth_users' \in {auth_users, auth_delete_user(auth_users, last'.uid)}
          ELSE /\ ~last'.success /\ last'.message = MsgNotFound
               /\ users' = users /\ auth_users' = auth_users]_vars

\* the identity provider kept the account of a user whose deletion succeeded
C17_Witness ==
    /\ last.op = "delete_user" /\ last.success
    /\ \E u \in auth_users : u.uid = last.uid
    /\ ~ \E d \in users : d.id = last.uid

\* C18: a create_user call that provisions an identity-provider account and
\* then fails on the write of the user document returns failure, leaves the
\* user documents as they were, with none for the new id, and leaves the new
\* account in the identity provider.
C18_NoRollbackOfIdentity ==
    [][(/\ last = NoCall /\ last'.op = "create_user"
        /\ last'.data.firebase_uid = 0 /\ last'.message = MsgStoreError)
       => (/\ ~last'.success
           /\ users' = users
           /\ ~ \E d \in users' : d.id = auth_next'
           /\ auth_next' = auth_next + 1
           /\ auth_users' = auth_users
                  \cup {[uid |-> auth_next', email |-> lower(last'.email),
                         password |-> last'.data.password]})]_vars

C18_Witness ==
    /\ last.op = "create_user" /\ last.message = MsgStoreError
    /\ \E u \in auth_users : u.uid = auth_next /\ u.email = lower(last.email)
    /\ ~ \E d \in users : d.id = auth_next

(***************************************************************************)
(* The profile operations of UserService, with update_user, on a           *)
(* registered user while the clock advances.                               *)
(***************************************************************************)
MsgUserNotFound == "User not found"
MsgUploadError == "Failed to upload photo"
MsgOnboardingUpdated == "Onboarding status updated successfully"
MsgPhotoProcessed == "Profile photo processed successfully"

update_onboarding_status(docs, t, firebase_uid, onboarding_completed, outcome) ==
    LET update_data == ("onboarding_completed" :> onboarding_completed)
                       @@ ("updated_at" :> Timestamp(t))
    IN  IF get_by_firebase_uid(docs, firebase_uid) = None
        THEN [users |-> docs, success |-> FALSE, message |-> MsgUserNotFound]
        ELSE IF outcome = "write_fails"
        THEN [users |-> docs, success |-> FALSE, message |-> MsgStoreError]
        ELSE [users |-> user_repo_update(docs, firebase_uid, update_data),
              success |-> TRUE, message |-> MsgOnboardingUpdated]

process_user_photo(docs, files, user_id, photo_data, outcome) ==
    LET upload == photo_data # PictureUrl
        photo_url == IF upload THEN StoredUrl ELSE photo_data
        files1 == IF upload THEN files + 1 ELSE files
        update_data == "profile_picture" :> photo_url
    IN  IF get_by_firebase_uid(docs, user_id) = None
        THEN [users |-> docs, blobs |-> files, success |-> FALSE, message |-> MsgUserNotFound]
        ELSE IF upload /\ outcome = "upload_fails"
        THEN [users |-> docs, blobs |-> files, success |-> FALSE, message |-> MsgUploadError]
        ELSE IF outcome = "write_fails"
        THEN [users |-> docs, blobs |-> files1, success |-> FALSE, message |-> MsgStoreError]
        ELSE [users |-> user_repo_update(docs, user_id, update_data), blobs |-> files1,
              success |-> TRUE, message |-> MsgPhotoProcessed]

UpdateOnboardingStatus(firebase_uid, onboarding_completed, outcome) ==
    LET r == update_onboarding_status(users, now, firebase_uid, onboarding_completed, outcome)
    IN  /\ last = NoCall
        /\ users' = r.users
        /\ last' = [NoCall EXCEPT !.op = "update_onboarding_status", !.uid = firebase_uid,
                                  !.success = r.success, !.message = r.message]
        /\ UNCHANGED <<now, password_resets, issued, auth_users, auth_next, blobs, consumed,
                       cleanup, running, notifications, push_keys, device_tokens>>

ProcessUserPhoto(user_id, photo_data, outcome) ==
    LET r == process_user_photo(users, blobs, user_id, photo_data, outcome)
    IN  /\ last = NoCall
        /\ r.blobs <= MaxBlobs
        /\ users' = r.users
        /\ blobs' = r.blobs
        /\ last' = [NoCall EXCEPT !.op = "process_user_photo", !.uid = user_id,
                                  !.success = r.success, !.message = r.message]
        /\ UNCHANGED <<now, password_resets, issued, auth_users, auth_next, consumed, cleanup,
                    running, notifications, push_keys, device_tokens>>

PhotoRequests ==
    {<<PictureUrl, "ok">>, <<Base64Picture, "ok">>, <<Base64Picture, "upload_fails">>,
     <<PictureUrl, "write_fails">>}

NextProfile ==
    \/ \E firebase_uid \in Uids, q \in UpdateRequests : UpdateUser(firebase_uid, q[1], q[2])
    \/ \E firebase_uid \in Uids, b \in BOOLEAN, outcome \in {"ok", "write_fails"} :
          UpdateOnboardingStatus(firebase_uid, b, outcome)
    \/ \E user_id \in Uids, q \in PhotoRequests : ProcessUserPhoto(user_id, q[1], q[2])
    \/ Tick
    \/ Return

SpecProfile == InitReset /\ [][NextProfile]_vars

\* C14: every update_user, update_onboarding_status or process_user_photo call
\* that changes a stored user document sets the document's updated_at to the
\* time of the call.
C14_UpdatedAtRefreshed ==
    [][(last = NoCall /\ last'.op \in {"update_user", "update_onboarding_status",
                                       "process_user_photo"})
       => \A d \in users, e \in users' :
             (e.id = d.id /\ e # d) => e.updated_at.at = now]_vars

(***************************************************************************)
(* cleanup_expired_tokens, under SpecReset.                                *)
(***************************************************************************)

\* C19: a cleanup_expired_tokens call deletes exactly the records whose
\* expires_at is earlier than now, used or not, and returns the number of
\* records it deleted.
C19_CleanupDeletesExpired ==
    [][(last = NoCall /\ last'.op = "cleanup_expired_tokens")
       => (/\ password_resets'
                 = {d \in password_resets : ~(fromisoformat(d.expires_at) < now)}
           /\ last'.count = Cardinality(password_resets \ password_resets'))]_vars

(***************************************************************************)
(* Runs of delete_expired_tokens side by side, step by step: the query,    *)
(* the batched deletes, the return.  The runs start on a store that the    *)
(* reset workflow can have left: records a@x.com requested at some hours,  *)
(* some of them consumed in the hour of the request, some deleted again.   *)
(***************************************************************************)
ResetAt(id, t, used) ==
    IF used
    THEN [PasswordReset(id, "a@x.com", 1, id, t) EXCEPT !.used = TRUE,
                                                        !.used_at = Timestamp(t)]
    ELSE PasswordReset(id, "a@x.com", 1, id, t)

InitCleanup ==
    \E t \in 0 .. MaxTime, ids \in SUBSET (1 .. MaxResets),
       created \in [1 .. MaxResets -> 0 .. MaxTime], used \in [1 .. MaxResets -> BOOLEAN] :
        /\ \A i, j \in 1 .. MaxResets : i <= j => created[i] <= created[j]
        /\ \A i \in 1 .. MaxResets : created[i] <= t /\ (i \notin ids => ~used[i])
        /\ now = t
        /\ password_resets = {ResetAt(i, created[i], used[i]) : i \in ids}
        /\ issued = MaxResets
        /\ consumed = {i \in ids : used[i]}
        /\ auth_users = {[uid |-> 1, email |-> "a@x.com", password |-> Str0ngPw]}
        /\ auth_next = 1
        /\ users = {[id |-> 1, email |-> "a@x.com", firebase_uid |-> 1,
                     profile_picture |-> "", onboarding_completed |-> FALSE,
                     updated_at |-> isoformat(0)]}
        /\ blobs = 0
        /\ cleanup = [r \in Runs |-> Idle]
        /\ last = NoCall
        /\ running = [c \in Calls |-> NotRunning]
        /\ notifications = {}
        /\ push_keys = 0
        /\ device_tokens = {}

\* query.get(): the documents with expires_at < now
CleanupQuery(r) ==
    /\ cleanup[r].pc = "idle"
    /\ cleanup' = [cleanup EXCEPT ![r] = [pc |-> "queried",
                                          docs |-> expired_docs(password_resets, now),
                                          count |-> 0]]
    /\ UNCHANGED <<now, password_resets, issued, auth_users, auth_next, users, blobs,
                   consumed, last, running, notifications, push_keys, device_tokens>>

\* the loop over the documents found: one commit of up to batch_limit deletes,
\* none when nothing is left to delete
CleanupDelete(r) ==
    LET docs == cleanup[r].docs
        batch == IF Cardinality(docs) <= batch_limit THEN docs
                 ELSE CHOOSE b \in SUBSET docs : Cardinality(b) = batch_limit
        rest == docs \ batch
    IN  /\ cleanup[r].pc = "queried"
        /\ password_resets' = {d \in password_resets : \A b \in batch : b.id # d.id}
        /\ cleanup' = [cleanup EXCEPT ![r] = [pc |-> IF rest = {} THEN "done" ELSE "queried",
                                              docs |-> rest,
                                              count |-> cleanup[r].count + Cardinality(batch)]]
        /\ UNCHANGED <<now, issued, auth_users, auth_next, users, blobs, consumed, last, running,
            notifications, push_keys, device_tokens>>

\* return count
CleanupReturn(r) ==
    /\ cleanup[r].pc = "done"
    /\ cleanup' = [cleanup EXCEPT ![r] = Idle]
    /\ UNCHANGED <<now, password_resets, issued, auth_users, auth_next, users, blobs,
                   consumed, last, running, notifications, push_keys, device_tokens>>

NextCleanup ==
    \/ \E r \in Runs : CleanupQuery(r)
    \/ \E r \in Runs : CleanupDelete(r)
    \/ \E r \in Runs : CleanupReturn(r)

SpecCleanup == InitCleanup /\ [][NextCleanup]_vars

Changed1 == <<"C", "h", "a", "n", "g", "e", "d", "1", "!">>

same_password_allowed(current_password, new_password) == FALSE

same_password(current_password, new_password) == current_password = new_password

\* auth.get_user(user_id): the account, or None for UserNotFoundError
auth_get_user(accounts, uid) ==
    IF \E u \in accounts : u.uid = uid
    THEN CHOOSE u \in accounts : u.uid = uid
    ELSE None

change_password(accounts, user_id, current_password, new_password, outcome) ==
    LET refuse(msg) == [accounts |-> accounts, updated |-> FALSE,
                        success |-> FALSE, message |-> msg]
    IN  IF Len(new_password) < min_password_length THEN refuse(MsgTooShort)
        ELSE IF same_password(current_password, new_password)
        THEN refuse("New password must be different from current password.")
        ELSE IF outcome = "get_fails" THEN refuse(MsgError)
        ELSE IF auth_get_user(accounts, user_id) = None THEN refuse("User not found.")
        ELSE IF outcome = "update_fails" THEN refuse(MsgAuthFailed)
        ELSE [accounts |-> auth_update_password(accounts, user_id, new_password),
              updated |-> TRUE, success |-> TRUE, message |-> "Password changed successfully."]

ChangePasswords == {Str0ngPw, NewPassw0rd, Changed1, Weak}

ChangePassword(user_id, current_password, new_password, outcome) ==
    LET r == change_password(auth_users, user_id, current_password, new_password, outcome)
    IN  /\ last = NoCall
        /\ auth_users' = r.accounts
        /\ last' = [NoCall EXCEPT !.op = "change_password", !.uid = user_id,
                        !.current = current_password, !.password = new_password,
                        !.outcome = outcome, !.success = r.success,
                        !.message = r.message, !.updated = r.updated]
        /\ UNCHANGED <<now, password_resets, issued, auth_next, users, blobs, consumed,
                       cleanup, running, notifications, push_keys, device_tokens>>

NextChange ==
    \/ \E user_id \in 1 .. MaxAccounts + 1, c \in ChangePasswords, p \in ChangePasswords,
          outcome \in {"ok", "get_fails", "update_fails"} :
              ChangePassword(user_id, c, p, outcome)
    \/ Return

SpecChange == InitReset /\ [][NextChange]_vars

MaxLen == 4

\* string.punctuation, but for the backslash and the backquote
punctuation == {"!", "\"", "#", "$", "%", "&", "'", "(", ")", "*", "+", ",", "-", ".",
                "/", ":", ";", "<", "=", ">", "?", "@", "[", "]", "^", "_",
                "{", "|", "}", "~"}



characters(password) == {password[i] : i \in 1 .. Len(password)}

\* the message of validate_password_strength for a class without a character
strength_message(class) ==
    CASE class = "upper" -> "Password must contain at least one uppercase letter."
      [] class = "lower" -> "Password must contain at least one lowercase letter."
      [] class = "digit" -> "Password must contain at least one number."
      [] OTHER -> "Password must contain at least one special character."

\* the error that validate_password appends for a class without a character
error_message(class) ==
    CASE class = "upper" -> "Password must contain at least one uppercase letter"
      [] class = "lower" -> "Password must contain at least one lowercase letter"
      [] class = "digit" -> "Password must contain at least one digit"
      [] OTHER -> "Password must contain at least one special character"

validate_password_strength(password) ==
    IF Len(password) < min_password_length THEN [valid |-> FALSE, message |-> MsgTooShort]
    ELSE IF characters(password) \cap UpperCase = {}
    THEN [valid |-> FALSE, message |-> strength_message("upper")]
    ELSE IF characters(password) \cap LowerCase = {}
    THEN [valid |-> FALSE, message |-> strength_message("lower")]
    ELSE IF characters(password) \cap Digits = {}
    THEN [valid |-> FALSE, message |-> strength_message("digit")]
    ELSE IF characters(password) \cap punctuation = {}
    THEN [valid |-> FALSE, message |-> strength_message("punctuation")]
    ELSE [valid |-> TRUE, message |-> ""]

\* result["errors"] of validate_password, in the order the checks append
validate_password_errors(password) ==
    LET error(missing, message) == IF missing THEN <<message>> ELSE <<>>
    IN  error(Len(password) < 8, "Password must be at least 8 characters long")
        \o error(characters(password) \cap UpperCase = {}, error_message("upper"))
        \o error(characters(password) \cap LowerCase = {}, error_message("lower"))
        \o error(characters(password) \cap Digits = {}, error_message("digit"))
        \o error(characters(password) \cap Special = {}, error_message("punctuation"))

\* the passwords tried, of characters of each class and "-", a punctuation
\* character that the regular expression of validate_password does not list;
\* each also after blanks that make it min_password_length long or longer
TestPasswords ==
    LET short == UNION {[1 .. n -> {"A", "a", "1", "!", "-"}] : n \in 0 .. MaxLen}
        blanks == [i \in 1 .. (min_password_length - MaxLen) |-> " "]
    IN  short \cup {blanks \o s : s \in short}

ValidatePasswordStrength(password) ==
    LET r == validate_password_strength(password)
    IN  /\ last = NoCall
        /\ last' = [NoCall EXCEPT !.op = "validate_password_strength",
                        !.password = password, !.success = r.valid,
                        !.message = r.message]
        /\ UNCHANGED <<now, password_resets, issued, auth_users, auth_next, users, blobs,
                       consumed, cleanup, running, notifications, push_keys,
                       device_tokens>>

ValidatePassword(password) ==
    /\ last = NoCall
    /\ last' = [NoCall EXCEPT !.op = "validate_password", !.password = password,
                    !.success = validate_password(password),
                    !.errors = validate_password_errors(password)]
    /\ UNCHANGED <<now, password_resets, issued, auth_users, auth_next, users, blobs,
                   consumed, cleanup, running, notifications, push_keys, device_tokens>>

NextValidate ==
    \/ \E password \in TestPasswords : ValidatePasswordStrength(password)
    \/ \E password \in TestPasswords : ValidatePassword(password)
    \/ Return

SpecValidate == InitReset /\ [][NextValidate]_vars

\* the classes of characters that password lacks
MissingClasses(password) ==
    {c \in {"upper", "lower", "digit", "punctuation"} :
        characters(password) \cap (CASE c = "upper" -> UpperCase
                                     [] c = "lower" -> LowerCase
                                     [] c = "digit" -> Digits
                                     [] OTHER -> punctuation) = {}}

\* C22: a password validator accepts p exactly when p has at least 8
\* characters and an uppercase letter, a lowercase letter, a digit and a
\* punctuation character; a p of that length that lacks one class is rejected
\* with the message naming that class.
C22_AcceptsIffAllClasses ==
    LET p == last.password
        strong == Len(p) >= 8 /\ MissingClasses(p) = {}
        named(c) ==
            IF last.op = "validate_password_strength"
            THEN last.message = strength_message(c)
            ELSE \E i \in 1 .. Len(last.errors) : last.errors[i] = error_message(c)
    IN  last.op \in {"validate_password_strength", "validate_password"}
        => /\ last.success <=> strong
           /\ \A c \in MissingClasses(p) :
                 (Len(p) >= 8 /\ MissingClasses(p) = {c}) => (~last.success /\ named(c))

(***************************************************************************)
(* request_password_reset step by step, for calls that run at the same     *)
(* time: the identity provider's lookup, the query for an active record,   *)
(* the write of the new record, the mail send, the compensating delete.    *)
(* Another call's steps can come between any two of them.                  *)
(***************************************************************************)
password_reset_repo_create_if_none(resets, reset) ==
    IF \E d \in resets : d.email = reset.email /\ ~d.used THEN resets
    ELSE resets \cup {reset}

password_reset_repo_create(resets, reset) == resets \cup {reset}

Finished(call, success, message) ==
    [call EXCEPT !.pc = "done", !.success = success, !.message = message]

RequestLookup(c, email) ==
    LET user == get_user_by_email(auth_users, email)
        call == [NotRunning EXCEPT !.op = "request_reset", !.email = email,
                                   !.found = user]
    IN  /\ running[c].pc = "idle"
        /\ running' = [running EXCEPT ![c] =
                          IF user = None THEN Finished(call, TRUE, MsgGeneric)
                          ELSE [call EXCEPT !.pc = "check"]]
        /\ UNCHANGED <<now, password_resets, issued, auth_users, auth_next, users, blobs,
                       cleanup, consumed, last, notifications, push_keys,
                       device_tokens>>

RequestCheck(c) ==
    LET existing_reset == get_active_reset_by_email(password_resets, running[c].email, now)
        call == [running[c] EXCEPT !.seen = Cardinality(password_resets)]
    IN  /\ running[c].op = "request_reset" /\ running[c].pc = "check"
        /\ running' = [running EXCEPT ![c] =
                          IF existing_reset # None THEN Finished(call, TRUE, MsgGeneric)
                          ELSE [call EXCEPT !.pc = "create"]]
        /\ UNCHANGED <<now, password_resets, issued, auth_users, auth_next, users, blobs,
                       cleanup, consumed, last, notifications, push_keys,
                       device_tokens>>

RequestCreate(c, createOk) ==
    LET call == running[c]
        reset == PasswordReset(issued + 1, call.email, call.found.uid, issued + 1, now)
    IN  /\ call.op = "request_reset" /\ call.pc = "create"
        /\ issued' = issued + 1
        /\ password_resets' = IF createOk
                              THEN password_reset_repo_create(password_resets, reset)
                              ELSE password_resets
        /\ running' = [running EXCEPT ![c] =
                          IF createOk THEN [call EXCEPT !.pc = "send", !.made = issued + 1]
                          ELSE Finished(call, FALSE, MsgError)]
        /\ UNCHANGED <<now, auth_users, auth_next, users, blobs, cleanup, consumed, last,
            notifications, push_keys, device_tokens>>

RequestSend(c, mail) ==
    LET call == [running[c] EXCEPT !.outcome = mail]
    IN  /\ running[c].op = "request_reset" /\ running[c].pc = "send"
        /\ running' = [running EXCEPT ![c] =
                          IF mail = "sent" THEN Finished(call, TRUE, MsgGeneric)
                          ELSE IF mail = "failed" THEN [call EXCEPT !.pc = "delete"]
                          ELSE Finished(call, FALSE, MsgError)]
        /\ UNCHANGED <<now, password_resets, issued, auth_users, auth_next, users, blobs,
                       cleanup, consumed, last, notifications, push_keys,
                       device_tokens>>

RequestDelete(c, deleteOk) ==
    /\ running[c].op = "request_reset" /\ running[c].pc = "delete"
    /\ password_resets' = delete(password_resets, running[c].made, deleteOk)
    /\ running' = [running EXCEPT ![c] = Finished(running[c], FALSE, MsgMailFailed)]
    /\ UNCHANGED <<now, issued, auth_users, auth_next, users, blobs, cleanup, consumed,
                   last, notifications, push_keys, device_tokens>>

NextRequests ==
    \E c \in Calls :
        \/ \E email \in Emails : RequestLookup(c, email)
        \/ RequestCheck(c)
        \/ \E createOk \in BOOLEAN : RequestCreate(c, createOk)
        \/ \E mail \in MailOutcomes : RequestSend(c, mail)
        \/ \E deleteOk \in BOOLEAN : RequestDelete(c, deleteOk)

SpecRequests == InitReset /\ [][NextRequests]_vars

\* the unused records of email that have not expired
ActiveResets(resets, email, t) ==
    {d \in resets : d.email = email /\ ~d.used /\ ~is_expired(d, t)}

\* C23: two request_reset calls for one registered email that run at the same
\* time can both pass the query for an active record and both create a record:
\* a call that has passed the query writes its record whatever another call
\* wrote in between, one more unused, unexpired record of that email.
C23_CreateAfterCheckUnconditional ==
    [][\A c \in Calls :
          (running[c].op = "request_reset" /\ running[c].pc = "create"
              /\ running'[c].pc = "send")
          => /\ password_resets \subseteq password_resets'
             /\ Cardinality(ActiveResets(password_resets', running[c].email, now))
                   = Cardinality(ActiveResets(password_resets, running[c].email, now)) + 1
      ]_vars

\* both calls made their query while the collection was empty, both wrote
C23_Witness ==
    \E c1, c2 \in Calls :
        /\ c1 # c2
        /\ running[c1].email = running[c2].email
        /\ running[c1].made # 0 /\ running[c2].made # 0
        /\ running[c1].seen = 0 /\ running[c2].seen = 0
        /\ Cardinality(ActiveResets(password_resets, running[c1].email, now)) = 2

(***************************************************************************)
(* Notifications and device tokens (api/v1/notifications.py over           *)
(* repositories/realtime_database/notification_repo.py and                 *)
(* repositories/firestore/device_token_repo.py).  user_id is the id of the *)
(* authenticated caller, read from the request.                            *)
(***************************************************************************)
MaxNotifications == 2

NotifyCallers == {1, ExternalUid}

DeviceTokens == {"ExponentPushToken[a]", "ExponentPushToken[b]"}


\* notification_repo.create: a new child under a push key
notification_repo_create(nodes, key, user_id, t) ==
    nodes \cup {[id |-> key, user_id |-> user_id, read |-> FALSE, read_at |-> NoDate,
                 created_at |-> isoformat(t)]}

notification_repo_get_by_id(nodes, notification_id) ==
    IF \E n \in nodes : n.id = notification_id
    THEN CHOOSE n \in nodes : n.id = notification_id
    ELSE None

notification_repo_mark_as_read(nodes, notification_id, t) ==
    {IF n.id = notification_id
     THEN [n EXCEPT !.read = TRUE, !.read_at = isoformat(t)]
     ELSE n : n \in nodes}

notification_repo_delete(nodes, notification_id) ==
    {n \in nodes : n.id # notification_id}

\* doc_ref.set on the document keyed by device_token: whatever it held is replaced
store_device_token(docs, user_id, device_token, device_type, device_name, t) ==
    {d \in docs : d.device_token # device_token}
    \cup {[device_token |-> device_token, user_id |-> user_id,
           device_type |-> device_type, device_name |-> device_name,
           created_at |-> Timestamp(t), updated_at |-> Timestamp(t),
           is_active |-> TRUE]}

remove_device_token(docs, device_token) == {d \in docs : d.device_token # device_token}

mark_as_read(nodes, t, user_id, notification_id, ok) ==
    LET notification == notification_repo_get_by_id(nodes, notification_id)
    IN  IF notification = None THEN [nodes |-> nodes, message |-> "Notification not found"]
        ELSE IF notification.user_id # user_id
        THEN [nodes |-> nodes, message |-> "Unauthorized"]
        ELSE IF ok
        THEN [nodes |-> notification_repo_mark_as_read(nodes, notification_id, t),
              message |-> "Notification marked as read"]
        ELSE [nodes |-> nodes, message |-> "Failed to mark notification as read"]

delete_notification(nodes, user_id, notification_id, ok) ==
    LET notification == notification_repo_get_by_id(nodes, notification_id)
    IN  IF notification = None THEN [nodes |-> nodes, message |-> "Notification not found"]
        ELSE IF notification.user_id # user_id
        THEN [nodes |-> nodes, message |-> "Unauthorized"]
        ELSE IF ok
        THEN [nodes |-> notification_repo_delete(nodes, notification_id),
              message |-> "Notification deleted successfully"]
        ELSE [nodes |-> nodes, message |-> "Failed to delete notification"]

register_device(docs, t, user_id, device_token, device_type, ok) ==
    IF device_type \notin {"ios", "android"}
    THEN [docs |-> docs, message |-> "Valid device type is required (ios or android)"]
    ELSE IF ok
    THEN [docs |-> store_device_token(docs, user_id, device_token, device_type,
                                      "Unknown Device", t),
          message |-> "Device registered successfully"]
    ELSE [docs |-> docs, message |-> "Failed to register device token"]

unregister_device(docs, user_id, device_id, ok) ==
    IF ok THEN [docs |-> remove_device_token(docs, device_id),
                message |-> "Device unregistered successfully"]
    ELSE [docs |-> docs, message |-> "Failed to unregister device"]

CreateNotification(user_id) ==
    /\ last = NoCall
    /\ push_keys < MaxNotifications
    /\ push_keys' = push_keys + 1
    /\ notifications' = notification_repo_create(notifications, push_keys + 1, user_id, now)
    /\ last' = [NoCall EXCEPT !.op = "create_notification", !.uid = user_id,
                    !.created = push_keys + 1, !.success = TRUE]
    /\ UNCHANGED <<now, password_resets, issued, auth_users, auth_next, users, blobs,
                   cleanup, consumed, running, device_tokens>>

MarkAsRead(user_id, notification_id, ok) ==
    LET r == mark_as_read(notifications, now, user_id, notification_id, ok)
    IN  /\ last = NoCall
        /\ notifications' = r.nodes
        /\ last' = [NoCall EXCEPT !.op = "mark_as_read", !.uid = user_id,
                        !.token = notification_id, !.message = r.message,
                        !.success = (r.message = "Notification marked as read")]
        /\ UNCHANGED <<now, password_resets, issued, auth_users, auth_next, users, blobs,
                       cleanup, consumed, running, push_keys, device_tokens>>

DeleteNotification(user_id, notification_id, ok) ==
    LET r == delete_notification(notifications, user_id, notification_id, ok)
    IN  /\ last = NoCall
        /\ notifications' = r.nodes
        /\ last' = [NoCall EXCEPT !.op = "delete_notification", !.uid = user_id,
                        !.token = notification_id, !.message = r.message,
                        !.success = (r.message = "Notification deleted successfully")]
        /\ UNCHANGED <<now, password_resets, issued, auth_users, auth_next, users, blobs,
                       cleanup, consumed, running, push_keys, device_tokens>>

RegisterDevice(user_id, device_token, device_type, ok) ==
    LET r == register_device(device_tokens, now, user_id, device_token, device_type, ok)
    IN  /\ last = NoCall
        /\ device_tokens' = r.docs
        /\ last' = [NoCall EXCEPT !.op = "register_device", !.uid = user_id,
                        !.email = device_token, !.outcome = device_type,
                        !.message = r.message,
                        !.success = (r.message = "Device registered successfully")]
        /\ UNCHANGED <<now, password_resets, issued, auth_users, auth_next, users, blobs,
                       cleanup, consumed, running, notifications, push_keys>>

UnregisterDevice(user_id, device_id, ok) ==
    LET r == unregister_device(device_tokens, user_id, device_id, ok)
    IN  /\ last = NoCall
        /\ device_tokens' = r.docs
        /\ last' = [NoCall EXCEPT !.op = "unregister_device", !.uid = user_id,
                        !.email = device_id, !.message = r.message,
                        !.success = (r.message = "Device unregistered successfully")]
        /\ UNCHANGED <<now, password_resets, issued, auth_users, auth_next, users, blobs,
                       cleanup, consumed, running, notifications, push_keys>>

NextNotify ==
    \/ \E user_id \in NotifyCallers : CreateNotification(user_id)
    \/ \E user_id \in NotifyCallers, id \in 1 .. MaxNotifications, ok \in BOOLEAN :
          MarkAsRead(user_id, id, ok)
    \/ \E user_id \in NotifyCallers, id \in 1 .. MaxNotifications, ok \in BOOLEAN :
          DeleteNotification(user_id, id, ok)
    \/ \E user_id \in NotifyCallers, device_token \in DeviceTokens,
          device_type \in {"ios", "android", "web"}, ok \in BOOLEAN :
          RegisterDevice(user_id, device_token, device_type, ok)
    \/ \E user_id \in NotifyCallers, device_id \in DeviceTokens, ok \in BOOLEAN :
          UnregisterDevice(user_id, device_id, ok)
    \/ Return

SpecNotify == InitReset /\ [][NextNotify]_vars

\* C24: mark_as_read, delete_notification, register_device and
\* unregister_device change or remove a notification or a device token only
\* when its user_id is the caller's id: every record of another user is after
\* the call what it was before.
C24_OnlyOwnerMutates ==
    [][(last = NoCall /\ last'.op \in {"mark_as_read", "delete_notification",
                                       "register_device", "unregister_device"})
          => /\ \A n \in notifications : n.user_id # last'.uid => n \in notifications'
             /\ \A d \in device_tokens : d.user_id # last'.uid => d \in device_tokens'
      ]_vars

(***************************************************************************)
(* FirestoreUserRepository.get_by_email over collections of any content:   *)
(* documents whose email is stored in lower case, documents written with   *)
(* the original case (the rows its second query and its scan are for), and *)
(* collections larger than the scan's limit.                               *)
(***************************************************************************)
MaxUsers == 3

StoredUser(id, email) ==
    [id |-> id, email |-> email, firebase_uid |-> id, profile_picture |-> "",
     onboarding_completed |-> FALSE, updated_at |-> isoformat(0)]

\* scan_limit documents with ids 2 .. scan_limit + 1 and addresses of their own
Crowd == {StoredUser(i, "u" \o ToString(i) \o "@x.com") : i \in 2 .. scan_limit + 1}

\* the collections looked into: up to MaxUsers documents with any of the
\* addresses, or the crowd and one document before or after it
Collections ==
    {{StoredUser(i, f[i]) : i \in {j \in 1 .. MaxUsers : f[j] # ""}} :
        f \in [1 .. MaxUsers -> Emails \cup {""}]}
    \cup {Crowd \cup {StoredUser(id, email)} :
            id \in {1, scan_limit + 2}, email \in {"a@x.com", "A@x.com"}}

InitLookup ==
    /\ now = 0
    /\ password_resets = {}
    /\ issued = 0
    /\ auth_users = {}
    /\ auth_next = 0
    /\ users \in Collections
    /\ blobs = 0
    /\ cleanup = [r \in Runs |-> Idle]
    /\ consumed = {}
    /\ last = NoCall
    /\ running = [c \in Calls |-> NotRunning]
    /\ notifications = {}
    /\ push_keys = 0
    /\ device_tokens = {}

GetByEmail(email) ==
    /\ last = NoCall
    /\ last' = [NoCall EXCEPT !.op = "get_by_email", !.email = email,
                    !.found = get_by_email(users, email)]
    /\ UNCHANGED <<now, password_resets, issued, auth_users, auth_next, users, blobs,
                   cleanup, consumed, running, notifications, push_keys, device_tokens>>

NextLookup ==
    \/ \E email \in Emails : GetByEmail(email)
    \/ Return

SpecLookup == InitLookup /\ [][NextLookup]_vars

InitResets ==
    /\ now = 0
    /\ password_resets = {PasswordReset(1, "a@x.com", 1, 1, 0)}
    /\ issued = 1
    /\ auth_users = {[uid |-> 1, email |-> "a@x.com", password |-> Str0ngPw]}
    /\ auth_next = 1
    /\ users = {[id |-> 1, email |-> "a@x.com", firebase_uid |-> 1,
                 profile_picture |-> "", onboarding_completed |-> FALSE,
                 updated_at |-> isoformat(0)]}
    /\ blobs = 0
    /\ cleanup = [r \in Runs |-> Idle]
    /\ consumed = {}
    /\ last = NoCall
    /\ running = [c \in Calls |-> NotRunning]
    /\ notifications = {}
    /\ push_keys = 0
    /\ device_tokens = {}

ResetGet(c, token, new_password) ==
    LET password_reset == get_by_token(password_resets, token)
        call == [NotRunning EXCEPT !.op = "reset_password", !.token = token,
                                   !.password = new_password, !.found = password_reset]
    IN  /\ running[c].pc = "idle"
        /\ running' = [running EXCEPT ![c] =
              IF too_short(new_password)
              THEN Finished([call EXCEPT !.found = None], FALSE, MsgTooShort)
              ELSE IF password_reset = None THEN Finished(call, FALSE, MsgInvalidToken)
              ELSE IF is_expired(password_reset, now) THEN Finished(call, FALSE, MsgExpired)
              ELSE IF already_used(password_reset) THEN Finished(call, FALSE, MsgUsed)
              ELSE [call EXCEPT !.pc = "update"]]
        /\ UNCHANGED <<now, password_resets, issued, auth_users, auth_next, users, blobs,
                       cleanup, consumed, last, notifications, push_keys, device_tokens>>

ResetUpdate(c, authOk) ==
    LET call == running[c]
        ok == authOk /\ \E u \in auth_users : u.uid = call.found.user_id
    IN  /\ call.op = "reset_password" /\ call.pc = "update"
        /\ auth_users' = IF ok
                         THEN auth_update_password(auth_users, call.found.user_id,
                                                   call.password)
                         ELSE auth_users
        /\ running' = [running EXCEPT ![c] =
              IF ok THEN [call EXCEPT !.pc = "mark", !.made = call.found.user_id]
              ELSE Finished(call, FALSE, MsgAuthFailed)]
        /\ UNCHANGED <<now, password_resets, issued, auth_next, users, blobs, cleanup,
                       consumed, last, notifications, push_keys, device_tokens>>

ResetMark(c, markOk) ==
    LET call == running[c]
    IN  /\ call.op = "reset_password" /\ call.pc = "mark"
        /\ password_resets' = mark_as_used(password_resets, call.found.id, now, markOk)
        /\ consumed' = consumed \cup {call.token}
        /\ running' = [running EXCEPT ![c] = Finished(call, TRUE, MsgResetDone)]
        /\ UNCHANGED <<now, issued, auth_users, auth_next, users, blobs, cleanup, last,
                       notifications, push_keys, device_tokens>>

NextResets ==
    \E c \in Calls :
        \/ \E token \in 0 .. MaxResets, p \in Passwords \cup {Changed1} :
              ResetGet(c, token, p)
        \/ \E authOk \in BOOLEAN : ResetUpdate(c, authOk)
        \/ \E markOk \in BOOLEAN : ResetMark(c, markOk)

SpecResets == InitResets /\ [][NextResets]_vars

\* C26: of the reset_password calls that present one token, running at the
\* same time, at most one changes the identity provider's credential.
C26_OneUpdatePerToken ==
    \A c1, c2 \in Calls :
        (/\ running[c1].op = "reset_password" /\ running[c2].op = "reset_password"
         /\ running[c1].token = running[c2].token
         /\ running[c1].made # 0 /\ running[c2].made # 0)
        => c1 = c2

(***************************************************************************)
(* Further properties of request_password_reset, under SpecReset.          *)
(***************************************************************************)
\* C27: whenever request_reset returns success = false, whatever failed, no
\* record created by that call is stored.
C27_FailureLeavesNoRecord ==
    (last.op = "request_reset" /\ ~last.success)
    => ~ \E d \in password_resets : d.id = last.created

\* C28: after request_reset calls made one after another, at most one unused,
\* unexpired record exists per owning user id, whatever the letter case in
\* which the calls spell the account's email.
C28_OneActivePerUser ==
    \A uid \in 1 .. MaxAccounts :
        Cardinality({d \in password_resets :
                        d.user_id = uid /\ ~d.used /\ ~is_expired(d, now)}) <= 1

(***************************************************************************)
(* Registration after deletion, under Spec.                                *)
(***************************************************************************)
\* C29: a create_user call that provisions a new identity with valid data for
\* an email that no user document holds (the email of a user that delete_user
\* removed, for one) is not rejected as a duplicate.
C29_FreedEmailRegistersAgain ==
    [][(/\ last = NoCall /\ last'.op = "create_user"
        /\ last'.data \in {NewUser(e) : e \in Emails}
        /\ get_by_email(users, last'.data.email) = None)
          => last'.message # MsgDuplicate]_vars

(***************************************************************************)
(* create_user step by step, for calls that run at the same time and each  *)
(* provision a new identity: the validations with the document store's     *)
(* uniqueness query, create_firebase_user at the identity provider (which  *)
(* refuses an email it already holds), the write of the user document.     *)
(***************************************************************************)
email_already_exists_never(accounts, email) == FALSE

\* firebase_admin.auth.create_user raises EmailAlreadyExistsError
email_already_exists(accounts, email) == get_user_by_email(accounts, email) # None

CreateCheck(c, data) ==
    LET call == [NotRunning EXCEPT !.op = "create_user", !.email = lower(data.email),
                                   !.password = data.password,
                                   !.found = get_by_email(users, lower(data.email)),
                                   !.seen = Cardinality(users)]
    IN  /\ running[c].pc = "idle"
        /\ running' = [running EXCEPT ![c] =
              IF ~validate_required_fields(data, TRUE)
              THEN Finished(call, FALSE, MsgMissingFields)
              ELSE IF ~validate_email(data.email)
              THEN Finished(call, FALSE, MsgInvalidEmail)
              ELSE IF data.phone_number # "" /\ ~validate_phone_number(data.phone_number)
              THEN Finished(call, FALSE, MsgInvalidPhone)
              ELSE IF call.found # None THEN Finished(call, FALSE, MsgDuplicate)
              ELSE [call EXCEPT !.pc = "provision"]]
        /\ UNCHANGED <<now, password_resets, issued, auth_users, auth_next, users, blobs,
                       cleanup, consumed, last, notifications, push_keys, device_tokens>>

CreateProvision(c, outcome) ==
    LET call == running[c]
        refused == \/ ~validate_password(call.password)
                   \/ email_already_exists(auth_users, call.email)
                   \/ outcome = "auth_fails"
    IN  /\ call.op = "create_user" /\ call.pc = "provision"
        /\ auth_users' = IF refused THEN auth_users
                         ELSE auth_create_user(auth_users, auth_next, call.email,
                                               call.password)
        /\ auth_next' = IF refused THEN auth_next ELSE auth_next + 1
        /\ running' = [running EXCEPT ![c] =
              IF ~validate_password(call.password)
              THEN Finished(call, FALSE, MsgPasswordErrors)
              ELSE IF email_already_exists(auth_users, call.email)
              THEN Finished(call, FALSE, MsgDuplicate)
              ELSE IF outcome = "auth_fails" THEN Finished(call, FALSE, MsgAuthError)
              ELSE IF outcome = "token_fails"
              THEN Finished([call EXCEPT !.made = auth_next + 1], FALSE, MsgAuthError)
              ELSE [call EXCEPT !.pc = "write", !.made = auth_next + 1]]
        /\ UNCHANGED <<now, password_resets, issued, users, blobs, cleanup, consumed, last,
                       notifications, push_keys, device_tokens>>

CreateWrite(c, ok) ==
    LET call == running[c]
    IN  /\ call.op = "create_user" /\ call.pc = "write"
        /\ users' = IF ok THEN user_repo_create(users, User(call.email, call.made, "", now))
                    ELSE users
        /\ running' = [running EXCEPT ![c] =
              IF ok THEN Finished(call, TRUE, MsgCreated)
              ELSE Finished(call, FALSE, MsgStoreError)]
        /\ UNCHANGED <<now, password_resets, issued, auth_users, auth_next, blobs, cleanup,
                       consumed, last, notifications, push_keys, device_tokens>>

NextCreates ==
    \E c \in Calls :
        \/ \E email \in Emails : CreateCheck(c, NewUser(email))
        \/ \E outcome \in {"ok", "auth_fails", "token_fails"} : CreateProvision(c, outcome)
        \/ \E ok \in BOOLEAN : CreateWrite(c, ok)

SpecCreates == Init /\ [][NextCreates]_vars

\* C30: of the create_user calls for one email (but for letter case) that run
\* at the same time and each provision a new identity, at most one writes a
\* user document: a call that reaches the identity provider after another
\* call's account for the email exists fails there with the already-exists
\* error, before its document write.
C30_OneDocumentPerEmail ==
    /\ [](\A c1, c2 \in Calls :
            (/\ running[c1].op = "create_user" /\ running[c2].op = "create_user"
             /\ running[c1].email = running[c2].email
             /\ running[c1].pc = "done" /\ running[c1].success
             /\ running[c2].pc \in {"write", "done"} /\ running[c2].made # 0)
            => c1 = c2)
    /\ [][\A c \in Calls :
            (/\ running[c].op = "create_user" /\ running[c].pc = "provision"
             /\ running'[c].pc # "provision"
             /\ \E u \in auth_users : u.email = running[c].email)
            => /\ running'[c].pc = "done" /\ ~running'[c].success
               /\ running'[c].message = MsgDuplicate
               /\ users' = users /\ auth_users' = auth_users]_vars

\* both calls made the uniqueness query on the empty collection; one wrote its
\* document, the other was refused by the identity provider
C30_Witness ==
    \E c1, c2 \in Calls :
        /\ c1 # c2
        /\ running[c1].op = "create_user" /\ running[c2].op = "create_user"
        /\ running[c1].email = running[c2].email
        /\ running[c1].seen = 0 /\ running[c2].seen = 0
        /\ running[c1].pc = "done" /\ running[c1].success
        /\ running[c2].pc = "done" /\ running[c2].message = MsgDuplicate
        /\ running[c2].found = None
        /\ Cardinality({d \in users : d.email = running[c1].email}) = 1

====
